---- MODULE Spec2Model ----
(***************************************************************************)
(* Model of the typed HTTP endpoint library: the Middleware hook pipeline  *)
(* (src/src/index.ts, lines 1-103) and the Endpoint / Builder              *)
(* configuration model (src/unnamed/part_001, lines 1-153).                *)
(*                                                                         *)
(* Requests, responses and thrown values are modelled as sequences of      *)
(* strings, so that every transformation a hook applies leaves a visible   *)
(* mark on the value it returns.                                           *)
(***************************************************************************)
EXTENDS Naturals, Sequences, FiniteSets, TLC

VARIABLES
    mws,      \* the Middleware instances constructed so far (their hooks field)
    origin,   \* for each instance, the arguments it was constructed from
    calls,    \* the frames of the send invocations
    infos,    \* the EndpointInfo records allocated so far
    objs,     \* the Builder and Endpoint instances, each holding a reference
              \* to its EndpointInfo
    now,      \* the instant: what a Headers constructor reads when it runs
    outs      \* what the toUrl / toURL / toRequestInit / toRequest
              \* invocations made so far were given and returned

vars == <<mws, origin, calls, infos, objs, now, outs>>

\* ------------------------------------------------------------------------
\* Bounds

\* Number of Middleware instances constructed while requests are being sent.
MaxMiddlewares == 2

\* Number of Middleware instances constructed when only composition is followed.
MaxComposed == 3

\* Number of Builder and Endpoint instances constructed.
MaxObjects == 4

\* The overlapping invocations of send that are followed.
CallIds == {"c1", "c2"}

\* The request each invocation of send is handed by its caller.
Requests == [c \in CallIds |-> <<"req", c>>]

\* The invocations of toUrl / toURL / toRequestInit / toRequest that are
\* followed, in the order they are made.
RequestIds == {"r1", "r2"}

\* The instants at which they are made.
Instants == {"t1", "t2"}

\* ------------------------------------------------------------------------
\* Values

\* undefined / void: what a hook that returns nothing evaluates to.
Nothing == <<>>

\* `hook(x) ?? x` written so that the hook's result is dropped.
CoalesceKeepsArgument(v, d) == d

\* `hook(x) ?? x` written without the `?? x`.
CoalesceTakesResult(v, d) == v

\* The `??` operator of `hook(x) ?? x`.
Coalesce(v, d) == IF v = Nothing THEN d ELSE v

\* A hook function: its identity (tag) and what it does when invoked.
\*   "void"  returns nothing
\*   "new"   returns a replacement value (the argument marked with its tag)
\*   "throw" throws
Hook(tag, ret) == [tag |-> tag, ret |-> ret]

\* An absent key of a Partial<Hooks> object.
NoHook == Hook("none", "absent")

\* Invocation of a hook function on an argument.
HookCall(h, x) ==
    CASE h.ret = "throw" -> [kind |-> "throw", val |-> <<"thrown", h.tag>>]
      [] h.ret = "new"   -> [kind |-> "return", val |-> Append(x, h.tag)]
      [] OTHER           -> [kind |-> "return", val |-> Nothing]

\* The injected transport: fetch(request) settles with a response, or
\* rejects with an error; both carry the request that was dispatched.
FetchResponse(request) == <<"res">> \o request
FetchError(request) == <<"neterr">> \o request

\* ------------------------------------------------------------------------
\* HookSequences

\* from written without the test for a missing key: every phase gets a
\* one-element array, holding undefined where no hook was given.
FromAlwaysWraps(hooks) ==
    [onCreated |-> <<hooks.onCreated>>,
     onSuccess |-> <<hooks.onSuccess>>,
     onFailure |-> <<hooks.onFailure>>,
     onSettled |-> <<hooks.onSettled>>]

\* HookSequences.from
From(hooks) ==
    [onCreated |-> IF hooks.onCreated # NoHook THEN <<hooks.onCreated>> ELSE <<>>,
     onSuccess |-> IF hooks.onSuccess # NoHook THEN <<hooks.onSuccess>> ELSE <<>>,
     onFailure |-> IF hooks.onFailure # NoHook THEN <<hooks.onFailure>> ELSE <<>>,
     onSettled |-> IF hooks.onSettled # NoHook THEN <<hooks.onSettled>> ELSE <<>>]

\* HookSequences.concat
Concat(target, source) ==
    [onCreated |-> target.onCreated \o source.onCreated,
     onSuccess |-> target.onSuccess \o source.onSuccess,
     onFailure |-> target.onFailure \o source.onFailure,
     onSettled |-> target.onSettled \o source.onSettled]

\* Partial<Hooks> objects callers pass to create / extend: per phase the
\* behaviour of the supplied hook, or "absent".
Partial(c, s, f, t) ==
    [onCreated |-> c, onSuccess |-> s, onFailure |-> f, onSettled |-> t]

PartialHookSets ==
    { Partial("absent", "absent", "absent", "absent"),
      Partial("new", "new", "new", "void"),
      Partial("void", "void", "void", "void"),
      Partial("throw", "absent", "new", "void"),
      Partial("void", "throw", "void", "void"),
      Partial("absent", "absent", "throw", "void"),
      Partial("absent", "absent", "absent", "throw"),
      Partial("void", "new", "absent", "absent") }

\* Names of the hook functions supplied in the k-th create / extend call.
Tags == <<"h1", "h2", "h3", "h4">>

\* The Partial<Hooks> object whose functions carry the given tag.
HooksObject(p, tag) ==
    [ph \in DOMAIN p |-> IF p[ph] = "absent" THEN NoHook ELSE Hook(tag, p[ph])]

\* ------------------------------------------------------------------------
\* Middleware.send

\* One entry of a call's trace: the hook invoked, its argument, its result.
Event(phase, tag, arg, r) ==
    [phase |-> phase, hook |-> tag, arg |-> arg, kind |-> r.kind, val |-> r.val]

\* The trace entry of the call of fetch.
FetchEvent(request) ==
    Event("fetch", "transport", request, [kind |-> "call", val |-> Nothing])

\* for (const hook of seq) { value = hook(value) ?? value }
\* used for the onCreated, onSuccess and onFailure loops.
RECURSIVE RunHooks(_, _, _, _, _)
RunHooks(phase, seq, i, value, trace) ==
    IF i > Len(seq)
    THEN [kind |-> "return", val |-> value, trace |-> trace]
    ELSE LET r == HookCall(seq[i], value)
             t == Append(trace, Event(phase, seq[i].tag, value, r))
         IN  IF r.kind = "throw"
             THEN [kind |-> "throw", val |-> r.val, trace |-> t]
             ELSE RunHooks(phase, seq, i + 1, Coalesce(r.val, value), t)

\* for (const hook of onSettled) { hook() }
RECURSIVE RunSettled(_, _, _)
RunSettled(seq, i, trace) ==
    IF i > Len(seq)
    THEN [kind |-> "return", val |-> Nothing, trace |-> trace]
    ELSE LET r == HookCall(seq[i], Nothing)
             t == Append(trace, Event("onSettled", seq[i].tag, Nothing, r))
         IN  IF r.kind = "throw"
             THEN [kind |-> "throw", val |-> r.val, trace |-> t]
             ELSE RunSettled(seq, i + 1, t)

\* A catch block that re-throws what it caught, whatever the hooks returned.
CatchRethrowsCaught(hooks, tried) ==
    IF tried.kind = "return"
    THEN tried
    ELSE LET f == RunHooks("onFailure", hooks.onFailure, 1, tried.val, tried.trace)
         IN  [kind |-> "throw",
              val |-> IF f.kind = "throw" THEN f.val ELSE tried.val,
              trace |-> f.trace]

\* A catch block that guards its hooks: when an onFailure hook throws, the
\* failure that was caught is re-thrown.
CatchIgnoresHookThrow(hooks, tried) ==
    IF tried.kind = "return"
    THEN tried
    ELSE LET f == RunHooks("onFailure", hooks.onFailure, 1, tried.val, tried.trace)
         IN  [kind |-> "throw",
              val |-> IF f.kind = "throw" THEN tried.val ELSE f.val,
              trace |-> f.trace]

\* catch (failure) { for (hook of onFailure) ...; throw failure }
\* applied to the completion of the try block.
Catch(hooks, tried) ==
    IF tried.kind = "return"
    THEN tried
    ELSE LET f == RunHooks("onFailure", hooks.onFailure, 1, tried.val, tried.trace)
         IN  [kind |-> "throw", val |-> f.val, trace |-> f.trace]

\* The onSettled loop placed after the try statement instead of in a
\* finally block: it is skipped when the statement throws.
FinallyOnReturnOnly(hooks, completion) ==
    IF completion.kind = "throw"
    THEN completion
    ELSE LET s == RunSettled(hooks.onSettled, 1, completion.trace)
         IN  IF s.kind = "throw"
             THEN [kind |-> "throw", val |-> s.val, trace |-> s.trace]
             ELSE [kind |-> completion.kind, val |-> completion.val,
                   trace |-> s.trace]

\* A finally block that guards its hooks: what an onSettled hook throws is
\* dropped and the pending completion is kept.
FinallyKeepsOutcome(hooks, completion) ==
    LET s == RunSettled(hooks.onSettled, 1, completion.trace)
    IN  [kind |-> completion.kind, val |-> completion.val, trace |-> s.trace]

\* finally { for (hook of onSettled) hook() }
\* a throw inside finally replaces the pending completion.
Finally(hooks, completion) ==
    LET s == RunSettled(hooks.onSettled, 1, completion.trace)
    IN  IF s.kind = "throw"
        THEN [kind |-> "throw", val |-> s.val, trace |-> s.trace]
        ELSE [kind |-> completion.kind, val |-> completion.val, trace |-> s.trace]

\* The onSettled loop run before the catch block.
SettleSettledFirst(hooks, tried) == Catch(hooks, Finally(hooks, tried))

\* The completion of send once its try block has completed.
Settle(hooks, tried) == Finally(hooks, Catch(hooks, tried))

\* ------------------------------------------------------------------------
\* State

NoHooks == [onCreated |-> <<>>, onSuccess |-> <<>>, onFailure |-> <<>>,
            onSettled |-> <<>>]

\* An invocation of an Endpoint method that has not been made yet.
IdleOut ==
    [op |-> "none", endpoint |-> 0, params |-> <<>>, data |-> <<>>,
     at |-> "none", invoked |-> <<>>, kind |-> "none", val |-> <<>>]

IdleCall ==
    [pc |-> "idle", mw |-> 0, hooks |-> NoHooks, request |-> Nothing,
     sent |-> Nothing, fetched |-> 0, transport |-> "none", kind |-> "none",
     val |-> Nothing, trace |-> <<>>, overlapped |-> FALSE,
     \* locals and completion of Middleware.call, when send runs inside it
     cpc |-> "none", endpoint |-> 0, built |-> Nothing, result |-> Nothing,
     ckind |-> "none", cval |-> Nothing]

Init ==
    /\ mws = <<>>
    /\ origin = <<>>
    /\ calls = [c \in CallIds |-> IdleCall]
    /\ infos = <<>>
    /\ objs = <<>>
    /\ now = "t1"
    /\ outs = [r \in RequestIds |-> IdleOut]

\* Middleware.create(hooks)
CreateUpTo(n) ==
    /\ Len(mws) < n
    /\ \E p \in PartialHookSets :
          LET hooks == HooksObject(p, Tags[Len(mws) + 1])
          IN  /\ mws' = Append(mws, From(hooks))
              /\ origin' = Append(origin, [client |-> 0, hooks |-> hooks])
    /\ UNCHANGED <<calls, infos, objs, now, outs>>

\* extend written with push: the client's own arrays receive the new hooks
\* and are shared with the new instance.
ExtendInPlaceUpTo(n) ==
    /\ Len(mws) < n
    /\ \E client \in DOMAIN mws, p \in PartialHookSets :
          LET hooks == HooksObject(p, Tags[Len(mws) + 1])
              pushed == Concat(mws[client], From(hooks))
          IN  /\ mws' = Append([mws EXCEPT ![client] = pushed], pushed)
              /\ origin' = Append(origin, [client |-> client, hooks |-> hooks])
    /\ UNCHANGED <<calls, infos, objs, now, outs>>

\* Middleware.extend(client, hooks)
ExtendUpTo(n) ==
    /\ Len(mws) < n
    /\ \E client \in DOMAIN mws, p \in PartialHookSets :
          LET hooks == HooksObject(p, Tags[Len(mws) + 1])
          IN  /\ mws' = Append(mws, Concat(mws[client], From(hooks)))
              /\ origin' = Append(origin, [client |-> client, hooks |-> hooks])
    /\ UNCHANGED <<calls, infos, objs, now, outs>>

Create == CreateUpTo(MaxMiddlewares)

Extend == ExtendUpTo(MaxMiddlewares)

\* Whether another invocation of send is suspended at its await.
Overlaps(c) == \E d \in CallIds \ {c} : calls[d].pc = "awaiting"

\* send(request), up to the await of fetch: the hook sequences are read from
\* this.hooks, the onCreated loop runs, then either fetch is called, or (an
\* onCreated hook threw) the catch and finally blocks run.
SendFrame(frame, c, m, request) ==
    LET hooks == mws[m]
        created == RunHooks("onCreated", hooks.onCreated, 1, request, <<>>)
        entered == [frame EXCEPT !.mw = m, !.hooks = hooks,
                                 !.request = request,
                                 !.overlapped = Overlaps(c)]
    IN  IF created.kind = "return"
        THEN [entered EXCEPT !.pc = "awaiting",
                             !.sent = created.val,
                             !.fetched = @ + 1,
                             !.trace = Append(created.trace,
                                              FetchEvent(created.val))]
        ELSE LET done == Settle(hooks, created)
             IN  [entered EXCEPT !.pc = "done",
                                 !.kind = done.kind,
                                 !.val = done.val,
                                 !.trace = done.trace]

\* Middleware.send called by a caller.
Send ==
    \E c \in CallIds, m \in DOMAIN mws :
       /\ calls[c].pc = "idle"
       /\ calls' = [calls EXCEPT ![c] = SendFrame(calls[c], c, m, Requests[c])]
       /\ UNCHANGED <<mws, origin, infos, objs, now, outs>>

\* The request kept in a field of the Middleware instead of a local: the
\* continuation reads the request of the latest send on that instance.
FetchFulfilledSharedRequest ==
    \E c \in CallIds :
       /\ calls[c].pc = "awaiting"
       /\ LET hooks == calls[c].hooks
              others == {d \in CallIds \ {c} :
                            calls[d].mw = calls[c].mw /\ calls[d].overlapped}
              sent == IF others = {} THEN calls[c].sent
                      ELSE calls[CHOOSE d \in others : TRUE].sent
              tried == RunHooks("onSuccess", hooks.onSuccess, 1,
                                FetchResponse(sent), calls[c].trace)
              done == Settle(hooks, tried)
          IN  calls' = [calls EXCEPT ![c] =
                  [@ EXCEPT !.pc = "done", !.transport = "fulfilled",
                            !.kind = done.kind, !.val = done.val,
                            !.trace = done.trace]]
       /\ UNCHANGED <<mws, origin, infos, objs, now, outs>>

\* The awaited fetch fulfils: the onSuccess loop, return, finally.
FetchFulfilled ==
    \E c \in CallIds :
       /\ calls[c].pc = "awaiting"
       /\ LET hooks == calls[c].hooks
              tried == RunHooks("onSuccess", hooks.onSuccess, 1,
                                FetchResponse(calls[c].sent), calls[c].trace)
              done == Settle(hooks, tried)
          IN  calls' = [calls EXCEPT ![c] =
                  [@ EXCEPT !.pc = "done", !.transport = "fulfilled",
                            !.kind = done.kind, !.val = done.val,
                            !.trace = done.trace]]
       /\ UNCHANGED <<mws, origin, infos, objs, now, outs>>

\* A rejected fetch retried once before the catch block runs.
FetchRejectedRetries ==
    \E c \in CallIds :
       /\ calls[c].pc = "awaiting"
       /\ IF calls[c].fetched < 2
          THEN calls' = [calls EXCEPT ![c] =
                   [@ EXCEPT !.fetched = @ + 1,
                             !.trace = Append(@, FetchEvent(calls[c].sent))]]
          ELSE LET hooks == calls[c].hooks
                   tried == [kind |-> "throw", val |-> FetchError(calls[c].sent),
                             trace |-> calls[c].trace]
                   done == Settle(hooks, tried)
               IN  calls' = [calls EXCEPT ![c] =
                       [@ EXCEPT !.pc = "done", !.transport = "rejected",
                                 !.kind = done.kind, !.val = done.val,
                                 !.trace = done.trace]]
       /\ UNCHANGED <<mws, origin, infos, objs, now, outs>>

\* The awaited fetch rejects: catch, finally.
FetchRejected ==
    \E c \in CallIds :
       /\ calls[c].pc = "awaiting"
       /\ LET hooks == calls[c].hooks
              tried == [kind |-> "throw", val |-> FetchError(calls[c].sent),
                        trace |-> calls[c].trace]
              done == Settle(hooks, tried)
          IN  calls' = [calls EXCEPT ![c] =
                  [@ EXCEPT !.pc = "done", !.transport = "rejected",
                            !.kind = done.kind, !.val = done.val,
                            !.trace = done.trace]]
       /\ UNCHANGED <<mws, origin, infos, objs, now, outs>>

Next == Create \/ Extend \/ Send \/ FetchFulfilled \/ FetchRejected

Spec == Init /\ [][Next]_vars

\* Composition alone: create and extend, no request in flight.
ComposeCreate == CreateUpTo(MaxComposed)

ComposeExtend == ExtendUpTo(MaxComposed)

NextCompose == ComposeCreate \/ ComposeExtend

SpecCompose == Init /\ [][NextCompose]_vars

\* ------------------------------------------------------------------------
\* Endpoint and Builder (src/unnamed/part_001, lines 1-153)
\*
\* A string that holds a path is modelled as the sequence of its tokens:
\* "/", "{", "}" and words (maximal runs of \w characters).

IsWord(token) == token \notin {"/", "{", "}"}

\* Typed values handed to and returned by selectors: the runtime type the
\* body classification tests, and the content.
\* `buffer` is what the value's buffer property holds, "none" when the
\* value has no such property.
Value(type, v) == [type |-> type, v |-> v, buffer |-> "none"]

\* A value whose buffer property holds an instance of the given class: a
\* typed array or a DataView, or any object with a property of that name.
WithBuffer(value, class) == [value EXCEPT !.buffer = class]

Null == Value("null", <<>>)

\* Header and option mappings: functions from keys to values.
EmptyMap == [k \in {} |-> <<>>]

\* { ...a, ...b }
Spread(a, b) ==
    [k \in DOMAIN a \cup DOMAIN b |-> IF k \in DOMAIN b THEN b[k] ELSE a[k]]

\* What a headers getter returns: a plain object, or an instance of Headers
\* (or of a class that extends it), with the header entries it holds.
HeadersValue(class, entries) == [class |-> class, entries |-> entries]

\* The own enumerable properties of a getter's result, which is what
\* `...result` copies: the entries of a plain object; an instance of Headers
\* keeps its entries in an internal list and has none.
OwnProperties(result) ==
    IF result.class = "Object" THEN result.entries ELSE EmptyMap

\* new headers(): Headers itself starts empty; AuthHeaders is a class that
\* extends Headers and sets Authorization to the token of the instant.
Construct(ctor, t) ==
    CASE ctor = "Headers"     -> HeadersValue("Headers", EmptyMap)
      [] ctor = "AuthHeaders" -> HeadersValue("Headers", [Authorization |-> t])

\* () => ({}) of Endpoint.base
EmptyGetter == [kind |-> "empty"]

\* () => new headers()
FactoryGetter(ctor) == [kind |-> "factory", ctor |-> ctor]

\* () => ({ ...this.info.headersGetter(), ...headers }): the closure keeps
\* the Builder it was made in, and reads that Builder's info when called.
MergeGetter(info, headers) == [kind |-> "merge", info |-> info, headers |-> headers]

\* Invocation of a headers getter at instant t, given the EndpointInfo
\* records.
RECURSIVE CallHeadersGetter(_, _, _)
CallHeadersGetter(heap, g, t) ==
    CASE g.kind = "empty"   -> HeadersValue("Object", EmptyMap)
      [] g.kind = "factory" -> Construct(g.ctor, t)
      [] g.kind = "merge"   ->
            HeadersValue("Object",
                Spread(OwnProperties(
                           CallHeadersGetter(heap, heap[g.info].headersGetter, t)),
                       g.headers))

\* The getters and constructors that run, in order, when the getter g is
\* invoked at instant t.
RECURSIVE HeadersGetterCalls(_, _, _)
HeadersGetterCalls(heap, g, t) ==
    <<[getter |-> g, at |-> t]>> \o
        (IF g.kind = "merge"
         THEN HeadersGetterCalls(heap, heap[g.info].headersGetter, t)
         ELSE <<>>)

\* Invocation of an input selector on the caller's arguments.
CallSelector(selector, data) ==
    CASE selector = "null"         -> Null
      [] selector = "text"         -> Value("string", data)
      [] selector = "object"       -> Value("object", data)
      [] selector = "blob"         -> Value("Blob", data)
      [] selector = "formData"     -> Value("FormData", data)
      [] selector = "stream"       -> Value("ReadableStream", data)
      [] selector = "searchParams" -> Value("URLSearchParams", data)
      [] selector = "arrayBuffer"  -> Value("ArrayBuffer", data)
      [] selector = "typedArray"   ->
            WithBuffer(Value("Uint8Array", data), "ArrayBuffer")
      [] selector = "dataView"     ->
            WithBuffer(Value("DataView", data), "ArrayBuffer")
      [] selector = "sharedArray"  ->
            WithBuffer(Value("Uint8Array", data), "SharedArrayBuffer")
      [] selector = "upload"       ->
            WithBuffer(Value("object", data), "ArrayBuffer")

\* The types toRequestInit attaches unchanged: null, typeof "string", and
\* the classes it tests with instanceof.
PassThroughTypes ==
    {"null", "string", "Blob", "FormData", "ReadableStream", "URLSearchParams",
     "ArrayBuffer"}

\* isArrayBufferView: "buffer" in body && body.buffer instanceof ArrayBuffer
IsArrayBufferView(body) == body.buffer = "ArrayBuffer"

\* JSON.stringify
JsonStringify(input) == Value("string", <<"json">> \o input.v)

\* io.Decoder.decode: a Right with the value, or a Left with the errors.
Decode(decoder, something) ==
    IF decoder = "unknown" \/ (Len(something) > 0 /\ something[1] = decoder)
    THEN [tag |-> "Right", value |-> something]
    ELSE [tag |-> "Left", value |-> <<"expected", decoder>>]

\* getUrlParametersNames: the matches of /(?<=\/\{)(\w+)(?=\})/g
RECURSIVE ParameterNamesFrom(_, _)
ParameterNamesFrom(url, i) ==
    IF i > Len(url) THEN <<>>
    ELSE IF /\ i >= 3 /\ i < Len(url)
            /\ url[i - 2] = "/" /\ url[i - 1] = "{" /\ url[i + 1] = "}"
            /\ IsWord(url[i])
         THEN <<url[i]>> \o ParameterNamesFrom(url, i + 1)
         ELSE ParameterNamesFrom(url, i + 1)

GetUrlParametersNames(url) == ParameterNamesFrom(url, 1)

\* What String.prototype.replace puts in place of a match: the replacement
\* string with its patterns expanded, "$$" to "$" and "$&" to the matched
\* substring.
RECURSIVE GetSubstitution(_, _, _)
GetSubstitution(matched, replacement, i) ==
    IF i > Len(replacement) THEN <<>>
    ELSE (CASE replacement[i] = "$&" -> matched
            [] replacement[i] = "$$" -> <<"$">>
            [] OTHER                 -> <<replacement[i]>>)
         \o GetSubstitution(matched, replacement, i + 1)

\* String.prototype.replace with a string pattern: the first occurrence.
Replace(str, pattern, replacement) ==
    LET at == {i \in 1..(Len(str) - Len(pattern) + 1) :
                  SubSeq(str, i, i + Len(pattern) - 1) = pattern}
    IN  IF at = {} THEN str
        ELSE LET i == CHOOSE i \in at : \A j \in at : i <= j
             IN  SubSeq(str, 1, i - 1) \o GetSubstitution(pattern, replacement, 1)
                    \o SubSeq(str, i + Len(pattern), Len(str))

\* "/" + params[name]
SlashValue(params, name) ==
    <<"/">> \o (IF name \in DOMAIN params THEN params[name] ELSE <<"undefined">>)

\* for (const name of names) url = url.replace(`/{${name}}`, "/" + params[name])
RECURSIVE Substitute(_, _, _, _)
Substitute(url, names, i, params) ==
    IF i > Len(names) THEN url
    ELSE Substitute(Replace(url, <<"/", "{", names[i], "}">>,
                            SlashValue(params, names[i])),
                    names, i + 1, params)

\* The serialization of a path by the URL class: "{" and "}" are in the
\* path percent-encode set.
PercentEncode(path) ==
    [i \in DOMAIN path |->
        CASE path[i] = "{" -> "%7B"
          [] path[i] = "}" -> "%7D"
          [] OTHER         -> path[i]]

\* new URL(url, base) for a path: the base is parsed (an empty path is "/"),
\* a path with a leading slash replaces the path of the base, any other is
\* resolved against the base's directory (the base's path up to its last
\* slash).
NewURL(url, base) ==
    LET basePath == IF base.path = <<>> THEN <<"/">> ELSE base.path
        slashes == {i \in DOMAIN basePath : basePath[i] = "/"}
        last == CHOOSE i \in slashes : \A j \in slashes : j <= i
    IN  IF Len(url) > 0 /\ url[1] = "/"
        THEN [origin |-> base.origin, path |-> PercentEncode(url)]
        ELSE [origin |-> base.origin,
              path |-> PercentEncode(SubSeq(basePath, 1, last) \o url)]

\* Endpoint.toURL
ToURL(info, params) ==
    NewURL(Substitute(info.url, GetUrlParametersNames(info.url), 1, params),
           info.baseUrl)

\* Endpoint.toUrl of the draft without a base URL: the path as a string.
ToUrl(info, params) ==
    Substitute(info.url, GetUrlParametersNames(info.url), 1, params)

\* The functions toRequestInit invokes, in order, when called at instant t.
ToRequestInitCalls(heap, info, t) ==
    <<[getter |-> [kind |-> "inputSelector"], at |-> t]>>
        \o HeadersGetterCalls(heap, info.headersGetter, t)

\* toRequestInit announcing the JSON text it produces: a Content-Type header
\* is set whenever the body is serialized.
ToRequestInitSetsContentType(heap, info, data, t) ==
    LET input == CallSelector(info.inputSelector, data)
        asIs == input.type \in PassThroughTypes \/ IsArrayBufferView(input)
        headers == CallHeadersGetter(heap, info.headersGetter, t)
    IN  [options |-> info.options,
         body |-> IF asIs THEN input ELSE JsonStringify(input),
         method |-> info.method,
         headers |-> IF asIs THEN headers
                     ELSE HeadersValue("Object",
                              Spread(OwnProperties(headers),
                                     [ContentType |-> "application/json"]))]

\* Endpoint.toRequestInit, called at instant t
ToRequestInit(heap, info, data, t) ==
    LET input == CallSelector(info.inputSelector, data)
        body == IF input.type \in PassThroughTypes \/ IsArrayBufferView(input)
                THEN input
                ELSE JsonStringify(input)
        headers == CallHeadersGetter(heap, info.headersGetter, t)
    IN  [options |-> info.options, body |-> body, method |-> info.method,
         headers |-> headers]

\* Endpoint.toRequest, called at instant t
ToRequest(heap, info, params, data, t) ==
    [url |-> ToURL(info, params), init |-> ToRequestInit(heap, info, data, t)]

\* Endpoint.toValidation
ToValidation(info, something) == Decode(info.outputDecoder, something)

\* Arguments callers pass.
BaseUrls == {[origin |-> "https://api.example.com", path |-> <<"/">>]}

Urls == {<<"/", "api", "/", "v1", "/", "thing", "/", "{", "id", "}">>,
         <<"/", "{", "thing", "}">>}

Methods == {"POST", "DELETE"}

Selectors == {"object", "text"}

Decoders == {"ResponseData", "Whatever"}

HeaderMaps == {[A |-> "1"], [A |-> "2", B |-> "3"]}

HeaderFactories == {"Headers", "AuthHeaders"}

OptionMaps == {[cache |-> "force-cache", credentials |-> "include"],
               [cache |-> "no-store", mode |-> "cors"]}

BaseOptionMaps == {EmptyMap, [cache |-> "force-cache"]}

ParamsSamples == {[id |-> <<"42">>], [thing |-> <<"42">>]}

DataSamples == {<<"user", "secret">>}

\* A Builder or an Endpoint: `info` is the index of its EndpointInfo; `op`,
\* `from` and `arg` record the call that returned it: the method, the
\* receiver and the argument.
Made(type, info, op, from, arg) ==
    [type |-> type, info |-> info, op |-> op, from |-> from, arg |-> arg]

\* A Builder or an Endpoint that was there from the start.
Object(type, info) == Made(type, info, "given", 0, <<>>)

\* The argument of Builder.headers: a constructor (typeof "function") or a
\* header mapping.
HeadersClass(ctor) == [typeof |-> "function", ctor |-> ctor]

HeadersInit(headers) == [typeof |-> "object", entries |-> headers]

Builders == {b \in DOMAIN objs : objs[b].type = "builder"}

Endpoints == {e \in DOMAIN objs : objs[e].type = "endpoint"}

InfoOf(o) == infos[objs[o].info]

\* new Builder({ ...this.info, <field>: value }): a new EndpointInfo and a
\* new Builder that holds it.
NewBuilderWith(info, op, from, arg) ==
    /\ infos' = Append(infos, info)
    /\ objs' = Append(objs, Made("builder", Len(infos) + 1, op, from, arg))

\* The EndpointInfo Endpoint.base constructs.
BaseInfo(baseUrl, baseInitOptions) ==
    [url |-> <<"/">>, baseUrl |-> baseUrl, method |-> "GET",
     headersGetter |-> EmptyGetter, inputSelector |-> "null",
     outputDecoder |-> "unknown", options |-> baseInitOptions]

\* Endpoint.base(baseUrl, baseInitOptions)
Base ==
    /\ Len(objs) < MaxObjects
    /\ \E baseUrl \in BaseUrls, baseInitOptions \in BaseOptionMaps :
          NewBuilderWith(BaseInfo(baseUrl, baseInitOptions),
                         "base", 0, baseInitOptions)
    /\ UNCHANGED <<mws, origin, calls, now, outs>>

\* Builder.build
Build ==
    /\ Len(objs) < MaxObjects
    /\ \E b \in Builders :
          /\ objs' = Append(objs, Made("endpoint", objs[b].info, "build", b, <<>>))
          /\ infos' = infos
    /\ UNCHANGED <<mws, origin, calls, now, outs>>

\* Endpoint.toBuilder
ToBuilder ==
    /\ Len(objs) < MaxObjects
    /\ \E e \in Endpoints :
          /\ objs' = Append(objs, Made("builder", objs[e].info, "toBuilder", e, <<>>))
          /\ infos' = infos
    /\ UNCHANGED <<mws, origin, calls, now, outs>>

\* url written so that the template is appended to the current one.
BuilderUrlAppends ==
    /\ Len(objs) < MaxObjects
    /\ \E b \in Builders, url \in Urls :
          NewBuilderWith([InfoOf(b) EXCEPT !.url = @ \o url], "url", b, url)
    /\ UNCHANGED <<mws, origin, calls, now, outs>>

\* Builder.url
BuilderUrl ==
    /\ Len(objs) < MaxObjects
    /\ \E b \in Builders, url \in Urls :
          NewBuilderWith([InfoOf(b) EXCEPT !.url = url], "url", b, url)
    /\ UNCHANGED <<mws, origin, calls, now, outs>>

\* method written as an assignment to this.info, the new Builder sharing it.
BuilderMethodInPlace ==
    /\ Len(objs) < MaxObjects
    /\ \E b \in Builders, method \in Methods :
          /\ infos' = [infos EXCEPT ![objs[b].info].method = method]
          /\ objs' = Append(objs, Made("builder", objs[b].info, "method", b, method))
    /\ UNCHANGED <<mws, origin, calls, now, outs>>

\* Builder.method
BuilderMethod ==
    /\ Len(objs) < MaxObjects
    /\ \E b \in Builders, method \in Methods :
          NewBuilderWith([InfoOf(b) EXCEPT !.method = method], "method", b, method)
    /\ UNCHANGED <<mws, origin, calls, now, outs>>

\* Builder.expects
BuilderExpects ==
    /\ Len(objs) < MaxObjects
    /\ \E b \in Builders, inputSelector \in Selectors :
          NewBuilderWith([InfoOf(b) EXCEPT !.inputSelector = inputSelector],
                         "expects", b, inputSelector)
    /\ UNCHANGED <<mws, origin, calls, now, outs>>

\* Builder.returns
BuilderReturns ==
    /\ Len(objs) < MaxObjects
    /\ \E b \in Builders, outputDecoder \in Decoders :
          NewBuilderWith([InfoOf(b) EXCEPT !.outputDecoder = outputDecoder],
                         "returns", b, outputDecoder)
    /\ UNCHANGED <<mws, origin, calls, now, outs>>

\* Builder.headers
BuilderHeaders ==
    /\ Len(objs) < MaxObjects
    /\ \/ \E b \in Builders, ctor \in HeaderFactories :
             NewBuilderWith([InfoOf(b) EXCEPT !.headersGetter = FactoryGetter(ctor)],
                            "headers", b, HeadersClass(ctor))
       \/ \E b \in Builders, headers \in HeaderMaps :
             NewBuilderWith([InfoOf(b) EXCEPT
                                !.headersGetter = MergeGetter(objs[b].info, headers)],
                            "headers", b, HeadersInit(headers))
    /\ UNCHANGED <<mws, origin, calls, now, outs>>

\* options written as in the drafts that replace the mapping:
\* new Builder({ ...this.init, options })
BuilderOptionsReplaces ==
    /\ Len(objs) < MaxObjects
    /\ \E b \in Builders, options \in OptionMaps :
          NewBuilderWith([InfoOf(b) EXCEPT !.options = options],
                         "options", b, options)
    /\ UNCHANGED <<mws, origin, calls, now, outs>>

\* Builder.options
BuilderOptions ==
    /\ Len(objs) < MaxObjects
    /\ \E b \in Builders, options \in OptionMaps :
          NewBuilderWith([InfoOf(b) EXCEPT !.options = Spread(@, options)],
                         "options", b, options)
    /\ UNCHANGED <<mws, origin, calls, now, outs>>

NextEndpoint ==
    \/ Base \/ Build \/ ToBuilder
    \/ BuilderUrl \/ BuilderMethod \/ BuilderExpects \/ BuilderReturns
    \/ BuilderHeaders \/ BuilderOptions

SpecEndpoint == Init /\ [][NextEndpoint]_vars

\* ------------------------------------------------------------------------
\* Middleware.call (src/src/index.ts, lines 49-58)

\* What response.json() may fulfil with.
JsonBodies == {<<"ResponseData", "ok">>, <<"Whatever", "1">>}

\* The endpoint of the sources' own example, built before any call is made:
\* base(...).url("/api/v1/thing/{id}").method("POST").expects(...)
\*    .returns(...).build()
SampleInfo(outputDecoder) ==
    [url |-> <<"/", "api", "/", "v1", "/", "thing", "/", "{", "id", "}">>,
     baseUrl |-> [origin |-> "https://api.example.com", path |-> <<"/">>],
     method |-> "POST", headersGetter |-> EmptyGetter,
     inputSelector |-> "object", outputDecoder |-> outputDecoder,
     options |-> EmptyMap]

InitCall ==
    /\ mws = <<>>
    /\ origin = <<>>
    /\ calls = [c \in CallIds |-> IdleCall]
    /\ \E outputDecoder \in Decoders :
          infos = <<SampleInfo(outputDecoder)>>
    /\ objs = <<Object("builder", 1), Object("endpoint", 1)>>
    /\ now = "t1"
    /\ outs = [r \in RequestIds |-> IdleOut]

\* call(endpoint, params, body) up to its first await: toRequest, then send
\* up to the await of fetch.
Call ==
    \E c \in CallIds, m \in DOMAIN mws, e \in Endpoints,
       params \in ParamsSamples, data \in DataSamples :
       /\ calls[c].pc = "idle"
       /\ LET built == ToRequest(infos, InfoOf(e), params, data, now)
              frame == [calls[c] EXCEPT !.cpc = "sending", !.endpoint = e,
                                        !.built = built]
          IN  calls' = [calls EXCEPT ![c] = SendFrame(frame, c, m, Requests[c])]
       /\ UNCHANGED <<mws, origin, infos, objs, now, outs>>

\* The awaited send has settled: call rejects with what send rejected with,
\* or goes on to await response.json().
CallResume ==
    \E c \in CallIds :
       /\ calls[c].cpc = "sending"
       /\ calls[c].pc = "done"
       /\ IF calls[c].kind = "throw"
          THEN calls' = [calls EXCEPT ![c] =
                   [@ EXCEPT !.cpc = "done", !.ckind = "throw",
                             !.cval = calls[c].val]]
          ELSE calls' = [calls EXCEPT ![c] = [@ EXCEPT !.cpc = "parsing"]]
       /\ UNCHANGED <<mws, origin, infos, objs, now, outs>>

\* response.json() fulfils: `const result = endpoint.toParser(...)`, and the
\* end of the function body is reached with no return statement.
JsonFulfilled ==
    \E c \in CallIds, json \in JsonBodies :
       /\ calls[c].cpc = "parsing"
       /\ calls' = [calls EXCEPT ![c] =
              [@ EXCEPT !.result = ToValidation(InfoOf(calls[c].endpoint), json),
                        !.cpc = "done", !.ckind = "return", !.cval = Nothing]]
       /\ UNCHANGED <<mws, origin, infos, objs, now, outs>>

\* response.json() rejects.
JsonRejected ==
    \E c \in CallIds :
       /\ calls[c].cpc = "parsing"
       /\ calls' = [calls EXCEPT ![c] =
              [@ EXCEPT !.cpc = "done", !.ckind = "throw",
                        !.cval = <<"SyntaxError">>]]
       /\ UNCHANGED <<mws, origin, infos, objs, now, outs>>

NextCall ==
    \/ Create \/ Extend \/ Call \/ FetchFulfilled \/ FetchRejected
    \/ CallResume \/ JsonFulfilled \/ JsonRejected

SpecCall == InitCall /\ [][NextCall]_vars

\* ------------------------------------------------------------------------
\* Endpoint.toUrl / toURL / toRequestInit / toRequest applied to built
\* endpoints

\* Base URLs callers pass to Endpoint.base: with and without a trailing
\* slash, with and without a path of their own.
BaseUrlSamples ==
    {[origin |-> "https://api.example.com", path |-> path] :
        path \in {<<>>, <<"/">>, <<"/", "v2">>, <<"/", "v2", "/">>}}

\* Path templates callers pass to Builder.url.
Templates ==
    << <<"/", "api", "/", "v1", "/", "thing", "/", "{", "id", "}">>,
       <<"/", "{", "thing", "}">>,
       <<"/", "{", "a", "}", "/", "x", "/", "{", "b", "}">>,
       <<"/", "things">>,
       <<"things", "/", "{", "id", "}">> >>

\* Values a caller supplies for a path parameter: strings.
ParamValues == {<<"42">>, <<"$&">>}

\* The params objects a caller may pass for a template: a value for some or
\* all of its parameter names.
ParamsFor(url) ==
    LET names == GetUrlParametersNames(url)
    IN  UNION {[given -> ParamValues] :
                  given \in SUBSET {names[i] : i \in DOMAIN names}}

\* Input selectors callers pass to Builder.expects: one per kind of value
\* toRequestInit tells apart; "sharedArray" returns a typed array over a
\* SharedArrayBuffer, "upload" a plain object { buffer: ArrayBuffer, ... }.
SelectorSamples ==
    <<"null", "text", "object", "blob", "formData", "stream", "searchParams",
      "arrayBuffer", "typedArray", "dataView", "sharedArray", "upload">>

\* The EndpointInfo records left by
\*   base(baseUrl), then .url(template) for each template
UrlHeap(baseUrl) ==
    LET root == BaseInfo(baseUrl, EmptyMap)
    IN  <<root>> \o [i \in DOMAIN Templates |-> [root EXCEPT !.url = Templates[i]]]

\*   base(baseUrl, options).headers(mapping), then .expects(selector) for
\*   each selector
BodyHeap ==
    LET root == BaseInfo(CHOOSE b \in BaseUrls : TRUE, [cache |-> "force-cache"])
        typed == [root EXCEPT !.headersGetter = MergeGetter(1, [A |-> "1"]),
                              !.method = "POST"]
    IN  <<root, typed>>
           \o [i \in DOMAIN SelectorSamples |->
                  [typed EXCEPT !.inputSelector = SelectorSamples[i]]]

\*   base(baseUrl).headers(AuthHeaders).headers(mapping), and
\*   base(baseUrl).headers(mapping).headers(mapping)
HeadersHeap ==
    LET root == BaseInfo(CHOOSE b \in BaseUrls : TRUE, EmptyMap)
        dynamic == [root EXCEPT !.headersGetter = FactoryGetter("AuthHeaders")]
        first == [root EXCEPT !.headersGetter = MergeGetter(1, [A |-> "1"])]
    IN  <<root, dynamic,
          [dynamic EXCEPT !.headersGetter = MergeGetter(2, [A |-> "1"])],
          first,
          [first EXCEPT !.headersGetter = MergeGetter(4, [A |-> "2", B |-> "3"])]>>

RequestHeaps == {UrlHeap(b) : b \in BaseUrlSamples} \cup {BodyHeap, HeadersHeap}

\* The builders that hold those records, and the endpoints built from each
\* builder but the one Endpoint.base returned.
InitRequest ==
    /\ mws = <<>>
    /\ origin = <<>>
    /\ calls = [c \in CallIds |-> IdleCall]
    /\ infos \in RequestHeaps
    /\ objs = [i \in DOMAIN infos |-> Object("builder", i)]
                 \o [i \in 1..(Len(infos) - 1) |-> Object("endpoint", i + 1)]
    /\ now = "t1"
    /\ outs = [r \in RequestIds |-> IdleOut]

\* The next invocation to be made is r.
NextOut(r) ==
    /\ outs[r].op = "none"
    /\ r = "r2" => outs["r1"].op # "none"

\* What is kept of an invocation that returned.
Returned(op, e, params, data, invoked, val) ==
    [op |-> op, endpoint |-> e, params |-> params, data |-> data, at |-> now,
     invoked |-> invoked, kind |-> "return", val |-> val]

\* endpoint.toUrl(params), draft without a base URL
ToUrlCall ==
    \E r \in RequestIds, e \in Endpoints :
       \E params \in ParamsFor(InfoOf(e).url) :
          /\ NextOut(r)
          /\ outs' = [outs EXCEPT ![r] =
                 Returned("toUrl", e, params, <<>>, <<>>, ToUrl(InfoOf(e), params))]
          /\ UNCHANGED <<mws, origin, calls, infos, objs, now>>

\* endpoint.toURL(params)
ToURLCall ==
    \E r \in RequestIds, e \in Endpoints :
       \E params \in ParamsFor(InfoOf(e).url) :
          /\ NextOut(r)
          /\ outs' = [outs EXCEPT ![r] =
                 Returned("toURL", e, params, <<>>, <<>>, ToURL(InfoOf(e), params))]
          /\ UNCHANGED <<mws, origin, calls, infos, objs, now>>

\* toRequestInit keeping the headers of the endpoint's previous request.
ToRequestInitCallCached ==
    \E r \in RequestIds, e \in Endpoints, data \in DataSamples :
       /\ NextOut(r)
       /\ LET fresh == ToRequestInit(infos, InfoOf(e), data, now)
              cached == r = "r2" /\ outs["r1"].op = "toRequestInit"
                                /\ outs["r1"].endpoint = e
          IN  outs' = [outs EXCEPT ![r] =
                 IF cached
                 THEN Returned("toRequestInit", e, <<>>, data,
                               <<[getter |-> [kind |-> "inputSelector"], at |-> now]>>,
                               [fresh EXCEPT !.headers = outs["r1"].val.headers])
                 ELSE Returned("toRequestInit", e, <<>>, data,
                               ToRequestInitCalls(infos, InfoOf(e), now), fresh)]
       /\ UNCHANGED <<mws, origin, calls, infos, objs, now>>

\* endpoint.toRequestInit(...data)
ToRequestInitCall ==
    \E r \in RequestIds, e \in Endpoints, data \in DataSamples :
       /\ NextOut(r)
       /\ outs' = [outs EXCEPT ![r] =
              Returned("toRequestInit", e, <<>>, data,
                       ToRequestInitCalls(infos, InfoOf(e), now),
                       ToRequestInit(infos, InfoOf(e), data, now))]
       /\ UNCHANGED <<mws, origin, calls, infos, objs, now>>

\* endpoint.toRequest(params, ...data)
ToRequestCall ==
    \E r \in RequestIds, e \in Endpoints, data \in DataSamples :
       \E params \in ParamsFor(InfoOf(e).url) :
          /\ NextOut(r)
          /\ outs' = [outs EXCEPT ![r] =
                 Returned("toRequest", e, params, data,
                          ToRequestInitCalls(infos, InfoOf(e), now),
                          ToRequest(infos, InfoOf(e), params, data, now))]
          /\ UNCHANGED <<mws, origin, calls, infos, objs, now>>

\* Time passes between two invocations: tokens and timestamps change.
Tick ==
    /\ now = "t1"
    /\ now' = "t2"
    /\ UNCHANGED <<mws, origin, calls, infos, objs, outs>>

NextRequest ==
    ToUrlCall \/ ToURLCall \/ ToRequestInitCall \/ ToRequestCall \/ Tick

SpecRequest == InitRequest /\ [][NextRequest]_vars

\* ------------------------------------------------------------------------
\* Reading a call's trace

Started == {c \in CallIds : calls[c].pc # "idle"}

Done == {c \in CallIds : calls[c].pc = "done"}

\* The hook sequences registered in the Middleware a call was made on.
Registered(c) == mws[calls[c].mw]

PhaseEvents(trace, phase) == SelectSeq(trace, LAMBDA e : e.phase = phase)

EventTags(trace, phase) ==
    LET es == PhaseEvents(trace, phase) IN [i \in 1..Len(es) |-> es[i].hook]

HookTags(seq) == [i \in 1..Len(seq) |-> seq[i].tag]

IsPrefix(s, t) == Len(s) <= Len(t) /\ SubSeq(t, 1, Len(s)) = s

\* The hooks of a sequence up to and including the first one that throws.
UpToThrow(seq) ==
    LET throwing == {i \in 1..Len(seq) : seq[i].ret = "throw"}
    IN  IF throwing = {} THEN seq
        ELSE SubSeq(seq, 1, CHOOSE i \in throwing : \A j \in throwing : i <= j)

\* The value in flight after a hook invocation that returned.
Replaced(e) == IF e.val = <<>> THEN e.arg ELSE e.val

Threw(trace, phase) == \E i \in DOMAIN trace :
    trace[i].phase = phase /\ trace[i].kind = "throw"

\* Each invocation of the phase after the first receives what the previous
\* invocation left in flight.
Threaded(es) == \A i \in 1..(Len(es) - 1) :
    es[i].kind = "return" /\ es[i + 1].arg = Replaced(es[i])

\* Every onSettled invocation comes after every other entry of the trace.
SettledLast(trace) == \A i, j \in DOMAIN trace :
    (trace[i].phase = "onSettled" /\ trace[j].phase # "onSettled") => j < i

\* The try block of send threw: fetch rejected, or an onCreated or onSuccess
\* hook threw.
TryThrew(c) ==
    \/ calls[c].transport = "rejected"
    \/ Threw(calls[c].trace, "onCreated")
    \/ Threw(calls[c].trace, "onSuccess")

\* The value the try block threw.
TryThrown(c) ==
    IF calls[c].transport = "rejected"
    THEN <<"neterr">> \o calls[c].sent
    ELSE LET tr == calls[c].trace
             i == CHOOSE i \in DOMAIN tr :
                     tr[i].phase \in {"onCreated", "onSuccess"} /\ tr[i].kind = "throw"
         IN  tr[i].val

\* The error left in flight by the onFailure invocations that returned.
FinalError(c) ==
    LET fs == PhaseEvents(calls[c].trace, "onFailure")
    IN  IF Len(fs) = 0 THEN TryThrown(c)
        ELSE IF fs[Len(fs)].kind = "return" THEN Replaced(fs[Len(fs)])
        ELSE fs[Len(fs)].arg

\* ------------------------------------------------------------------------
\* C1

\* C1 (as stated): in every completed send, whichever path was taken, every
\* registered onSettled hook has run exactly once, in sequence order, after
\* every invocation of the other phases.
C1_EverySettledHookRuns ==
    \A c \in Done :
        /\ EventTags(calls[c].trace, "onSettled") = HookTags(Registered(c).onSettled)
        /\ SettledLast(calls[c].trace)

\* C1 (amended): in every completed send, whichever path was taken, the
\* onSettled hooks run in sequence order, each at most once, after every
\* invocation of the other phases; they are the registered onSettled hooks up
\* to and including the first one that throws, hence all of them, exactly
\* once, when no onSettled hook throws.
C1_SettledHooksRunUpToThrow ==
    \A c \in Done :
        /\ EventTags(calls[c].trace, "onSettled")
              = HookTags(UpToThrow(Registered(c).onSettled))
        /\ ~Threw(calls[c].trace, "onSettled") =>
              EventTags(calls[c].trace, "onSettled")
                 = HookTags(Registered(c).onSettled)
        /\ SettledLast(calls[c].trace)

\* A send whose dispatch was rejected and whose onFailure hook threw has
\* still run both of its onSettled hooks.
C1_Witness ==
    \E c \in Done :
        /\ calls[c].transport = "rejected"
        /\ Threw(calls[c].trace, "onFailure")
        /\ Len(Registered(c).onSettled) = 2
        /\ Len(PhaseEvents(calls[c].trace, "onSettled")) = 2

\* ------------------------------------------------------------------------
\* C2

\* C2 (as stated): when the try block of send throws, the thrown value goes
\* through every onFailure hook in sequence order, each receiving the error
\* left by the previous one, and send rejects with the final error.
C2_FailureThroughEveryHook ==
    \A c \in Done : TryThrew(c) =>
        LET fs == PhaseEvents(calls[c].trace, "onFailure")
        IN  /\ EventTags(calls[c].trace, "onFailure")
                  = HookTags(Registered(c).onFailure)
            /\ Len(fs) > 0 => fs[1].arg = TryThrown(c)
            /\ Threaded(fs)
            /\ calls[c].kind = "throw"
            /\ calls[c].val = FinalError(c)

\* C2 (amended): when the try block of send throws, the thrown value goes
\* through the onFailure hooks in sequence order, each receiving the error
\* left by the previous one, up to and including the first onFailure hook
\* that throws; send never resolves normally: it rejects with the value
\* thrown by an onSettled hook if one throws, else with the value thrown by
\* an onFailure hook if one throws, else with the final error.
C2_FailureTransformedNeverSwallowed ==
    \A c \in Done : TryThrew(c) =>
        LET tr == calls[c].trace
            fs == PhaseEvents(tr, "onFailure")
            ss == PhaseEvents(tr, "onSettled")
        IN  /\ EventTags(tr, "onFailure") = HookTags(UpToThrow(Registered(c).onFailure))
            /\ Len(fs) > 0 => fs[1].arg = TryThrown(c)
            /\ Threaded(fs)
            /\ calls[c].kind = "throw"
            /\ calls[c].val =
                  IF Threw(tr, "onSettled") THEN ss[Len(ss)].val
                  ELSE IF Threw(tr, "onFailure") THEN fs[Len(fs)].val
                  ELSE FinalError(c)

\* A rejected dispatch went through two onFailure hooks, the first of which
\* returned a replacement, and send rejected with the replaced error.
C2_Witness ==
    \E c \in Done :
        LET fs == PhaseEvents(calls[c].trace, "onFailure")
        IN  /\ calls[c].transport = "rejected"
            /\ Len(fs) = 2
            /\ fs[1].val # <<>>
            /\ fs[1].kind = "return" /\ fs[2].kind = "return"
            /\ calls[c].kind = "throw"
            /\ calls[c].val # TryThrown(c)

\* ------------------------------------------------------------------------
\* C3

\* C3: the onCreated hooks fold the request left to right: the first
\* receives the request given to send, each later one what the previous one
\* left (its return value, or its argument when it returned nothing), and
\* fetch is called with what the last one left; the hooks of a created
\* middleware run before those added by extend.
C3_CreatedFold ==
    \A c \in Started :
        LET tr == calls[c].trace
            cs == PhaseEvents(tr, "onCreated")
            m  == calls[c].mw
        IN  /\ EventTags(tr, "onCreated") = HookTags(UpToThrow(Registered(c).onCreated))
            /\ Len(cs) > 0 => cs[1].arg = calls[c].request
            /\ Threaded(cs)
            /\ \A i \in DOMAIN cs :
                  (cs[i].kind = "return" /\ cs[i].val = <<>> /\ i < Len(cs))
                      => cs[i + 1].arg = cs[i].arg
            /\ calls[c].fetched > 0 =>
                  /\ calls[c].sent =
                        IF Len(cs) = 0 THEN calls[c].request ELSE Replaced(cs[Len(cs)])
                  /\ PhaseEvents(tr, "fetch")[1].arg = calls[c].sent
            /\ (/\ origin[m].client # 0
                /\ Len(mws[origin[m].client].onCreated) = 1
                /\ origin[m].hooks.onCreated # NoHook
                /\ Len(cs) = 2)
               => /\ cs[1].hook = mws[origin[m].client].onCreated[1].tag
                  /\ cs[2].hook = origin[m].hooks.onCreated.tag
                  /\ cs[2].arg = Replaced(cs[1])

\* A send on create({onCreated: h1}) extended with {onCreated: h2}: h1
\* returned a replacement, h2 received it, and fetch was called.
C3_Witness ==
    \E c \in Started :
        LET cs == PhaseEvents(calls[c].trace, "onCreated")
        IN  /\ origin[calls[c].mw].client # 0
            /\ Len(cs) = 2
            /\ cs[1].val # <<>>
            /\ cs[2].arg = cs[1].val
            /\ cs[2].arg # calls[c].request
            /\ calls[c].fetched = 1

\* ------------------------------------------------------------------------
\* C4

PhaseRank(phase) ==
    CASE phase = "onCreated" -> 1
      [] phase = "fetch"     -> 2
      [] phase = "onSuccess" -> 3
      [] phase = "onFailure" -> 3
      [] phase = "onSettled" -> 4

\* C4: within one send the phases are strictly ordered (onCreated, then the
\* dispatch, then onSuccess / onFailure once the dispatch has completed, then
\* onSettled), and within each phase the hooks of the base middleware run
\* before the hooks added by extend.
C4_PhaseOrder ==
    \A c \in Started :
        LET tr == calls[c].trace
            m  == calls[c].mw
        IN  /\ \A i, j \in DOMAIN tr :
                  i < j => PhaseRank(tr[i].phase) <= PhaseRank(tr[j].phase)
            /\ calls[c].pc = "awaiting" =>
                  \A i \in DOMAIN tr : PhaseRank(tr[i].phase) <= 2
            /\ \A i \in DOMAIN tr :
                  tr[i].phase \in {"onSuccess", "onFailure"} =>
                      (calls[c].fetched = 0 \/ calls[c].transport # "none")
            /\ origin[m].client # 0 =>
                  \A i, j \in DOMAIN tr :
                      (/\ tr[i].phase = tr[j].phase
                       /\ tr[i].phase # "fetch"
                       /\ \E k \in DOMAIN mws[origin[m].client][tr[i].phase] :
                             mws[origin[m].client][tr[i].phase][k].tag = tr[i].hook
                       /\ tr[j].hook = origin[m].hooks[tr[j].phase].tag)
                      => i < j

\* A completed send on an extended middleware that ran base and extension
\* hooks in the onCreated, onSuccess and onSettled phases around a dispatch.
C4_Witness ==
    \E c \in Done :
        /\ origin[calls[c].mw].client # 0
        /\ Len(PhaseEvents(calls[c].trace, "onCreated")) = 2
        /\ Len(PhaseEvents(calls[c].trace, "fetch")) = 1
        /\ Len(PhaseEvents(calls[c].trace, "onSuccess")) = 2
        /\ Len(PhaseEvents(calls[c].trace, "onFailure")) >= 1
        /\ Len(PhaseEvents(calls[c].trace, "onSettled")) = 2

\* ------------------------------------------------------------------------
\* C5

\* C5: when the dispatch succeeds and no hook throws, every onSuccess hook
\* runs in sequence order, the first on the transport's response and each
\* later one on what the previous one left, send resolves with what the last
\* one left, and no onFailure hook runs.
C5_SuccessFold ==
    \A c \in Done :
        (/\ calls[c].transport = "fulfilled"
         /\ \A i \in DOMAIN calls[c].trace : calls[c].trace[i].kind # "throw")
        => LET tr == calls[c].trace
               ss == PhaseEvents(tr, "onSuccess")
               response == <<"res">> \o calls[c].sent
           IN  /\ EventTags(tr, "onSuccess") = HookTags(Registered(c).onSuccess)
               /\ Len(ss) > 0 => ss[1].arg = response
               /\ Threaded(ss)
               /\ calls[c].kind = "return"
               /\ calls[c].val = IF Len(ss) = 0 THEN response ELSE Replaced(ss[Len(ss)])
               /\ PhaseEvents(tr, "onFailure") = <<>>

\* A successful send ran two onSuccess hooks, the first returning a
\* replacement and the second returning nothing, and resolved with the
\* replacement.
C5_Witness ==
    \E c \in Done :
        LET ss == PhaseEvents(calls[c].trace, "onSuccess")
        IN  /\ calls[c].transport = "fulfilled"
            /\ \A i \in DOMAIN calls[c].trace : calls[c].trace[i].kind # "throw"
            /\ Len(ss) = 2
            /\ ss[1].val # <<>>
            /\ ss[2].val = <<>>
            /\ calls[c].kind = "return"
            /\ calls[c].val = ss[1].val

\* ------------------------------------------------------------------------
\* C7

\* C7: a send calls the transport at most once: once when no onCreated hook
\* throws, never when one does, whatever fails afterwards.
C7_AtMostOneDispatch ==
    \A c \in Started :
        /\ calls[c].fetched <= 1
        /\ calls[c].fetched = Len(PhaseEvents(calls[c].trace, "fetch"))
        /\ calls[c].fetched = 1 <=> ~Threw(calls[c].trace, "onCreated")

\* A send whose dispatch was rejected and whose onFailure hook threw has
\* completed after a single dispatch.
C7_Witness ==
    \E c \in Done :
        /\ calls[c].transport = "rejected"
        /\ Threw(calls[c].trace, "onFailure")
        /\ calls[c].fetched = 1

\* ------------------------------------------------------------------------
\* C6

\* What extend is given for one phase, as a sequence of zero or one hook.
Supplied(hooks, phase) ==
    IF hooks[phase] = NoHook THEN <<>> ELSE <<hooks[phase]>>

PhaseNames == {"onCreated", "onSuccess", "onFailure", "onSettled"}

C6_ExtendStep ==
    /\ \A m \in DOMAIN mws : m \in DOMAIN mws' /\ mws'[m] = mws[m]
    /\ \A k \in DOMAIN mws' \ DOMAIN mws :
          origin'[k].client # 0 =>
              \A ph \in PhaseNames :
                  mws'[k][ph] = mws[origin'[k].client][ph]
                                   \o Supplied(origin'[k].hooks, ph)

\* C6: extend(m, hooks) yields a new Middleware whose sequence for each
\* phase is m's sequence followed by the hook supplied for that phase, if
\* any; the sequences of every existing Middleware, m included, are the same,
\* element for element, after the step.
C6_ExtendAppendsAndPreserves == [][C6_ExtendStep]_vars

\* A middleware holding hooks has been extended twice, each time with hooks,
\* and one of the extensions has been extended in turn.
C6_Witness ==
    /\ Len(mws) = 3
    /\ origin[2].client = 1 /\ origin[3].client = 1
    /\ Len(mws[1].onFailure) = 1
    /\ Len(mws[2].onFailure) = 2
    /\ Len(mws[3].onFailure) = 2
    /\ Len(mws[3].onCreated) = 1
    /\ mws[2] # mws[3]

\* ------------------------------------------------------------------------
\* C8

\* send(request) run from start to end with nothing else going on, given how
\* the transport settles.
SendAlone(hooks, request, transport) ==
    LET created == RunHooks("onCreated", hooks.onCreated, 1, request, <<>>)
        dispatched == Append(created.trace, FetchEvent(created.val))
    IN  IF created.kind = "throw"
        THEN Settle(hooks, created)
        ELSE IF transport = "fulfilled"
        THEN Settle(hooks, RunHooks("onSuccess", hooks.onSuccess, 1,
                                    FetchResponse(created.val), dispatched))
        ELSE Settle(hooks, [kind |-> "throw", val |-> FetchError(created.val),
                            trace |-> dispatched])

\* C8: when sends on one Middleware overlap, each completed send has the
\* outcome and the hook invocations (order, arguments and results) it has
\* when run alone on its own request, and the Middleware's hook sequences
\* are those it had when each send started.
C8_OverlappingSendsIndependent ==
    /\ \A c \in Started : mws[calls[c].mw] = calls[c].hooks
    /\ \A c \in Done :
          LET alone == SendAlone(mws[calls[c].mw], calls[c].request,
                                 calls[c].transport)
          IN  /\ calls[c].kind = alone.kind
              /\ calls[c].val = alone.val
              /\ calls[c].trace = alone.trace

\* Two sends on the same Middleware, with different requests, overlapped at
\* the dispatch; one was fulfilled, the other rejected, both have completed.
C8_Witness ==
    \E c, d \in Done :
        /\ c # d
        /\ calls[c].mw = calls[d].mw
        /\ calls[d].overlapped
        /\ calls[c].request # calls[d].request
        /\ calls[c].transport = "fulfilled"
        /\ calls[d].transport = "rejected"
        /\ Len(calls[c].trace) > 3

\* ------------------------------------------------------------------------
\* C10

C10_Step ==
    \A o \in DOMAIN objs :
        /\ o \in DOMAIN objs'
        /\ objs'[o].type = objs[o].type
        /\ infos'[objs'[o].info] = infos[objs[o].info]
        /\ objs[o].type = "endpoint" =>
              \A params \in ParamsSamples, data \in DataSamples :
                  ToRequest(infos', infos'[objs'[o].info], params, data, now)
                     = ToRequest(infos, infos[objs[o].info], params, data, now)

\* C10: no builder operation (url, method, expects, returns, headers,
\* options, build) and no toBuilder changes the configuration of any Builder
\* or Endpoint that exists: each holds the same EndpointInfo after the step
\* as before it, so a Builder still builds the same endpoint, and every
\* Endpoint produces the same requests.
C10_ConfigurationImmutable == [][C10_Step]_vars

\* An endpoint was built, turned back into a builder, and that builder's
\* method was replaced: the derived builder differs from the endpoint.
C10_Witness ==
    \E e \in Endpoints, b, d \in Builders :
        /\ e < b /\ b < d
        /\ objs[b].info = objs[e].info
        /\ objs[d].info # objs[e].info
        /\ InfoOf(d).method # InfoOf(e).method
        /\ InfoOf(d).url = InfoOf(e).url

\* ------------------------------------------------------------------------
\* C11

\* The fields of an EndpointInfo.
InfoFields ==
    {"url", "baseUrl", "method", "headersGetter", "inputSelector",
     "outputDecoder", "options"}

\* The field each of the four operations names.
FieldOf(op) ==
    CASE op = "url"     -> "url"
      [] op = "method"  -> "method"
      [] op = "expects" -> "inputSelector"
      [] op = "returns" -> "outputDecoder"

\* C11: a builder returned by url, method, expects or returns holds, in the
\* field the operation names, exactly the argument it was given (replaced,
\* not appended), and in every other field (header provider, extra options
\* and base URL included) what the receiver holds.
C11_ReplacesOneField ==
    \A k \in Builders :
        objs[k].op \in {"url", "method", "expects", "returns"} =>
            LET mine == InfoOf(k)
                theirs == InfoOf(objs[k].from)
                field == FieldOf(objs[k].op)
            IN  /\ DOMAIN mine = InfoFields
                /\ mine[field] = objs[k].arg
                /\ \A other \in InfoFields \ {field} : mine[other] = theirs[other]

\* A builder with a header provider and extra options of its own was given
\* a new path template, and the result a new method: both results differ
\* from their receiver in that field and carry the provider and the options.
C11_Witness ==
    \E j, k \in Builders :
        /\ objs[k].op = "method" /\ objs[k].from = j
        /\ objs[j].op = "url"
        /\ InfoOf(j).url # InfoOf(objs[j].from).url
        /\ InfoOf(k).method # InfoOf(j).method
        /\ InfoOf(k).url = InfoOf(j).url
        /\ InfoOf(k).headersGetter # EmptyGetter
        /\ InfoOf(k).options # EmptyMap

\* ------------------------------------------------------------------------
\* C12

\* C12: the provider of a builder returned by headers(mapping) returns the
\* previous provider's result merged with the mapping, the mapping's keys
\* overriding; the provider of a builder returned by headers(factory)
\* returns what the factory constructs and nothing of the previous provider.
C12_HeadersMergeOverPrevious ==
    \A k \in Builders : objs[k].op = "headers" =>
        \A t \in Instants :
            LET previous == CallHeadersGetter(infos,
                                InfoOf(objs[k].from).headersGetter, t)
                mine == CallHeadersGetter(infos, InfoOf(k).headersGetter, t)
                given == objs[k].arg
            IN  IF given.typeof = "object"
                THEN \A name \in DOMAIN previous.entries \cup DOMAIN given.entries :
                        /\ name \in DOMAIN mine.entries
                        /\ mine.entries[name] =
                              IF name \in DOMAIN given.entries
                              THEN given.entries[name]
                              ELSE previous.entries[name]
                ELSE mine = Construct(given.ctor, t)

\* ------------------------------------------------------------------------
\* C13

Answered == {r \in RequestIds : outs[r].op # "none"}

\* The template of the endpoint an invocation was made on.
TemplateOf(r) == InfoOf(outs[r].endpoint).url

\* A {name} token starts at position i of a path.
PlaceholderAt(path, i) ==
    /\ i + 2 <= Len(path)
    /\ path[i] = "{" /\ path[i + 2] = "}"
    /\ path[i + 1] \notin {"/", "{", "}"}

\* The parameter names of a template.
PlaceholderNames(template) ==
    {template[i + 1] : i \in {j \in DOMAIN template : PlaceholderAt(template, j)}}

\* The template with the value supplied for each name written where the
\* {name} token stands.
RECURSIVE Filled(_, _, _)
Filled(template, i, params) ==
    IF i > Len(template) THEN <<>>
    ELSE IF PlaceholderAt(template, i)
         THEN params[template[i + 1]] \o Filled(template, i + 3, params)
         ELSE <<template[i]>> \o Filled(template, i + 1, params)

\* ------------------------------------------------------------------------
\* C14

\* C14: toUrl called with a value for exactly the parameter names of the
\* template returns the template with each {name} token replaced, where it
\* stands, by the value supplied for that name, and no {name} token of the
\* template is left in what it returns.
C14_ToUrlFillsEveryPlaceholder ==
    \A r \in Answered :
        (/\ outs[r].op = "toUrl"
         /\ DOMAIN outs[r].params = PlaceholderNames(TemplateOf(r)))
        => /\ outs[r].kind = "return"
           /\ outs[r].val = Filled(TemplateOf(r), 1, outs[r].params)
           /\ \A i \in DOMAIN outs[r].val :
                 ~(/\ PlaceholderAt(outs[r].val, i)
                   /\ outs[r].val[i + 1] \in PlaceholderNames(TemplateOf(r)))

\* ------------------------------------------------------------------------
\* C15

\* C15: toUrl, toURL and toRequest called without a value for one of the
\* template's parameter names fail with MissingParameterError; they do not
\* return.
C15_MissingParameterFails ==
    \A r \in Answered :
        (/\ outs[r].op \in {"toUrl", "toURL", "toRequest"}
         /\ PlaceholderNames(TemplateOf(r)) \ DOMAIN outs[r].params # {})
        => /\ outs[r].kind = "throw"
           /\ outs[r].val = <<"MissingParameterError">>

\* ------------------------------------------------------------------------
\* C16

TrimTrailingSlash(str) ==
    IF Len(str) > 0 /\ str[Len(str)] = "/"
    THEN SubSeq(str, 1, Len(str) - 1)
    ELSE str

EnsureLeadingSlash(path) ==
    IF Len(path) > 0 /\ path[1] = "/" THEN path ELSE <<"/">> \o path

\* C16: the URL toURL returns is the base URL with one trailing slash
\* trimmed, followed by the substituted path with one leading slash:
\* whatever path the base URL has is kept, and the slashes at the seam do
\* not matter.
C16_BaseUrlJoined ==
    \A r \in Answered :
        (/\ outs[r].op = "toURL"
         /\ DOMAIN outs[r].params = PlaceholderNames(TemplateOf(r))
         /\ \A name \in DOMAIN outs[r].params : outs[r].params[name] = <<"42">>)
        => LET base == InfoOf(outs[r].endpoint).baseUrl
               path == Filled(TemplateOf(r), 1, outs[r].params)
           IN  outs[r].val =
                  [origin |-> base.origin,
                   path |-> TrimTrailingSlash(base.path) \o EnsureLeadingSlash(path)]

\* ------------------------------------------------------------------------
\* C17

\* The pass-through wire types: text, binary buffers, buffer views, stream,
\* form payload, URL-encoded parameter set.
WireTypes ==
    {"string", "Blob", "ArrayBuffer", "Uint8Array", "DataView",
     "ReadableStream", "FormData", "URLSearchParams"}

\* What the body selector of the endpoint returned to an invocation.
Selected(r) ==
    CallSelector(InfoOf(outs[r].endpoint).inputSelector, outs[r].data)

\* The selector is invoked once; headers, method and extra options are what
\* the header provider returns and what the endpoint holds.
OnceAndUntouched(r) ==
    LET info == InfoOf(outs[r].endpoint)
    IN  /\ Len(SelectSeq(outs[r].invoked,
                         LAMBDA c : c.getter.kind = "inputSelector")) = 1
        /\ outs[r].val.headers
              = CallHeadersGetter(infos, info.headersGetter, outs[r].at)
        /\ outs[r].val.method = info.method
        /\ outs[r].val.options = info.options

\* The body is the JSON text of what the selector returned.
BodyIsJsonText(r) ==
    /\ outs[r].val.body.type = "string"
    /\ outs[r].val.body.v = <<"json">> \o Selected(r).v

InitOf(r) == IF outs[r].op = "toRequest" THEN outs[r].val.init ELSE outs[r].val

Pending(c) == IF TryThrew(c) THEN "throw" ELSE "return"

\* C19: when an onSettled hook throws, send rejects with what that hook
\* threw, whether it was about to return a response or to re-throw a
\* failure, and the onSettled hooks after it in the sequence are not run:
\* the throwing invocation is the last thing send does.
C19_SettledThrowReplacesOutcome ==
    \A c \in Done : Threw(calls[c].trace, "onSettled") =>
        LET tr == calls[c].trace
            ss == PhaseEvents(tr, "onSettled")
        IN  /\ tr[Len(tr)].phase = "onSettled"
            /\ tr[Len(tr)].kind = "throw"
            /\ \A i \in 1..(Len(ss) - 1) : ss[i].kind = "return"
            /\ calls[c].kind = "throw"
            /\ calls[c].val = tr[Len(tr)].val
            /\ IsPrefix(EventTags(tr, "onSettled"), HookTags(Registered(c).onSettled))
            /\ Registered(c).onSettled[Len(ss)].ret = "throw"

\* A send whose dispatch was fulfilled and whose onSuccess hooks returned
\* was about to return the response; the first of its two onSettled hooks
\* threw: send rejected with that value and the second hook was not run.
C19_Witness ==
    \E c \in Done :
        /\ calls[c].transport = "fulfilled"
        /\ Pending(c) = "return"
        /\ Len(Registered(c).onSettled) = 2
        /\ Len(PhaseEvents(calls[c].trace, "onSettled")) = 1
        /\ calls[c].kind = "throw"
        /\ calls[c].val = <<"thrown", Registered(c).onSettled[1].tag>>

\* ------------------------------------------------------------------------
\* C20

\* C20 (as stated): when an onFailure hook throws, the onFailure hooks after
\* it are not run, send rejects with what that hook threw, and every
\* onSettled hook runs exactly once.
C20_FailureThrowThenEverySettled ==
    \A c \in Done : Threw(calls[c].trace, "onFailure") =>
        LET tr == calls[c].trace
            fs == PhaseEvents(tr, "onFailure")
        IN  /\ fs[Len(fs)].kind = "throw"
            /\ \A i \in 1..(Len(fs) - 1) : fs[i].kind = "return"
            /\ IsPrefix(EventTags(tr, "onFailure"), HookTags(Registered(c).onFailure))
            /\ calls[c].kind = "throw"
            /\ calls[c].val = fs[Len(fs)].val
            /\ EventTags(tr, "onSettled") = HookTags(Registered(c).onSettled)

\* C20 (amended): when an onFailure hook throws, the onFailure hooks after
\* it are not run, and the onSettled hooks still run, in order, up to and
\* including the first one that throws; when no onSettled hook throws every
\* one of them runs exactly once and send rejects with what the onFailure
\* hook threw, not with the original failure; when one throws, send rejects
\* with what that onSettled hook threw.
C20_FailureThrowThenSettled ==
    \A c \in Done : Threw(calls[c].trace, "onFailure") =>
        LET tr == calls[c].trace
            fs == PhaseEvents(tr, "onFailure")
            ss == PhaseEvents(tr, "onSettled")
        IN  /\ fs[Len(fs)].kind = "throw"
            /\ \A i \in 1..(Len(fs) - 1) : fs[i].kind = "return"
            /\ IsPrefix(EventTags(tr, "onFailure"), HookTags(Registered(c).onFailure))
            /\ calls[c].kind = "throw"
            /\ EventTags(tr, "onSettled")
                  = HookTags(UpToThrow(Registered(c).onSettled))
            /\ IF Threw(tr, "onSettled")
               THEN calls[c].val = ss[Len(ss)].val
               ELSE /\ calls[c].val = fs[Len(fs)].val
                    /\ calls[c].val # TryThrown(c)
                    /\ EventTags(tr, "onSettled") = HookTags(Registered(c).onSettled)

\* A rejected dispatch was handed to the first of two onFailure hooks, which
\* threw: the second was not run, both onSettled hooks ran, and send
\* rejected with what the first onFailure hook threw.
C20_Witness ==
    \E c \in Done :
        /\ calls[c].transport = "rejected"
        /\ Len(Registered(c).onFailure) = 2
        /\ Len(PhaseEvents(calls[c].trace, "onFailure")) = 1
        /\ Len(Registered(c).onSettled) = 2
        /\ Len(PhaseEvents(calls[c].trace, "onSettled")) = 2
        /\ calls[c].kind = "throw"
        /\ calls[c].val = <<"thrown", Registered(c).onFailure[1].tag>>

\* ------------------------------------------------------------------------
\* C21

\* The middlewares made by create (not derived from a client by extend).
Created == {m \in DOMAIN mws : origin[m].client = 0}

\* The created middlewares whose partial set held no hook at all.
HookLess == {m \in Created : \A ph \in PhaseNames : origin[m].hooks[ph] = NoHook}

\* C21: a middleware made by create(partialHooks) holds, for each of the
\* four phases, the one hook the partial set supplies for that phase and
\* nothing else, or an empty sequence when it supplies none; a send on a
\* middleware created with no hooks invokes no hook, hands fetch the very
\* request it was given, exactly once, and settles as the transport does:
\* it resolves with the transport's response (and rejects with the
\* transport's error when the transport gives no response).
C21_CreateOneHookPerPhase ==
    /\ \A m \in Created : \A ph \in PhaseNames :
          /\ Len(mws[m][ph]) <= 1
          /\ origin[m].hooks[ph] = NoHook => mws[m][ph] = <<>>
          /\ origin[m].hooks[ph] # NoHook =>
                /\ Len(mws[m][ph]) = 1
                /\ mws[m][ph][1] = origin[m].hooks[ph]
    /\ \A c \in Started :
          calls[c].mw \in HookLess =>
              /\ calls[c].sent = calls[c].request
              /\ calls[c].request = Requests[c]
              /\ calls[c].fetched = 1
              /\ calls[c].trace = <<FetchEvent(calls[c].request)>>
              /\ calls[c].pc = "done" =>
                    /\ calls[c].transport = "fulfilled" =>
                          /\ calls[c].kind = "return"
                          /\ calls[c].val = <<"res">> \o calls[c].request
                    /\ calls[c].transport = "rejected" =>
                          /\ calls[c].kind = "throw"
                          /\ calls[c].val = <<"neterr">> \o calls[c].request

\* One middleware was created with no hooks and a send on it has resolved
\* with the response of the transport; another was created from a partial
\* set that supplies hooks for some phases and none for others.
C21_Witness ==
    /\ \E c \in Done :
          /\ calls[c].mw \in HookLess
          /\ calls[c].transport = "fulfilled"
          /\ calls[c].kind = "return"
    /\ \E m \in Created :
          /\ origin[m].hooks.onCreated # NoHook
          /\ origin[m].hooks.onSuccess # NoHook
          /\ origin[m].hooks.onFailure = NoHook
          /\ origin[m].hooks.onSettled = NoHook
          /\ Len(mws[m].onCreated) = 1
          /\ Len(mws[m].onFailure) = 0

\* ------------------------------------------------------------------------
\* C9

\* C9: a call that resolves has built its request from the endpoint, sent
\* it, decoded the response body with the endpoint's decoder, and resolves
\* with that decode result (not with nothing).
C9_CallResolvesWithDecodeResult ==
    \A c \in CallIds :
        (calls[c].cpc = "done" /\ calls[c].ckind = "return") =>
            /\ calls[c].fetched = 1
            /\ calls[c].result # Nothing
            /\ calls[c].result.tag \in {"Right", "Left"}
            /\ calls[c].cval = calls[c].result

====
